---- MODULE Spec2Model ----
(***************************************************************************)
(* A model of khal/controllers.py: get_agenda (with construct_daynames)    *)
(* and NewFromString, over a calendar collection whose storage, event      *)
(* parser and date parser are collaborators living outside controllers.py. *)
(*                                                                         *)
(* Dates are day ordinals (integers); an instant is a record               *)
(* [date, time].  An optional value is a sequence: <<>> is Python's None   *)
(* and <<x>> is the value x.  A styled line is a record; the text of an    *)
(* event line is its length in columns.                                    *)
(***************************************************************************)
EXTENDS Integers, Sequences, FiniteSets

VARIABLES store, today, call, ret, proc

vars == <<store, today, call, ret, proc>>

None == <<>>
Some(x) == <<x>>

\* ------------------------------------------------------------------ bounds
MaxEvents == 2
MaxDates == 2
MaxDays == 2

\* ------------------------------------------------------- program constants
DefaultDays == 2
DefaultWidth == 45
ExitFatal == 1
time_min == 0
time_max == 3

\* ------------------------------------------------------ the configuration
Calendars == {"one", "ro"}
ReadOnlyCalendars == {"ro"}
locale == [dateformat |-> "%d.%m.", longdateformat |-> "%d.%m.%Y"]
PrintNew == {"False", "event", "path"}

\* ----------------------------------------------------- the inputs explored
Clock == {1}
Widths == {0, 3, DefaultWidth}
DateCodes == {0, 1, 2}
TimeCodes == {None, Some(1), Some(2)}
Titles == {<<2, 4>>}
DateItems == {[kind |-> "date", v |-> 0], [kind |-> "str", v |-> 0],
              [kind |-> "str", v |-> 2]}

RECURSIVE SeqsUpTo(_, _)
SeqsUpTo(S, n) ==
  IF n = 0 THEN {<<>>}
  ELSE LET shorter == SeqsUpTo(S, n - 1)
       IN shorter \cup {Append(s, x) : s \in shorter, x \in S}

\* An event that no calendar of the collection holds.
GhostEvent ==
  [uid |-> 0, allday |-> FALSE, start |-> [date |-> 0, time |-> 1],
   end |-> [date |-> 0, time |-> 2], summary |-> <<2>>, calendar |-> "one",
   account |-> "one"]

\* ------------------------------------------------------------ collaborators
\* aux.datefstr: the day-of-month text of a date; day 0 does not exist.
datefstr(code) ==
  IF code >= 1 THEN [ok |-> TRUE, date |-> code - 1]
  ELSE [ok |-> FALSE, date |-> 0]

\* aux.construct_event: free text to an event draft, or FatalError.
construct_event(date_list) ==
  LET d == datefstr(date_list.date)
  IN IF ~d.ok THEN [fatal |-> TRUE]
     ELSE IF date_list.time = None
       THEN [fatal |-> FALSE, allday |-> TRUE,
             start |-> [date |-> d.date, time |-> time_min],
             end |-> [date |-> d.date, time |-> time_max],
             summary |-> date_list.title]
       ELSE [fatal |-> FALSE, allday |-> FALSE,
             start |-> [date |-> d.date, time |-> date_list.time[1]],
             end |-> [date |-> d.date, time |-> date_list.time[1] + 1],
             summary |-> date_list.title]

\* CalendarCollection.default_calendar_name: the calendar the caller named
\* when building the collection, the configured default otherwise.
default_calendar_name(collection) ==
  IF collection.named # None THEN collection.named[1] ELSE collection.default

\* Before(a, b): instant a lies strictly before instant b.
Before(a, b) == a.date < b.date \/ (a.date = b.date /\ a.time < b.time)
NotAfter(a, b) == ~Before(b, a)

\* CalendarCollection.get_allday_by_time_range(day)
get_allday_by_time_range(events, day) ==
  SelectSeq(events, LAMBDA e : e.allday /\ e.start.date <= day /\ day <= e.end.date)

\* CalendarCollection.get_datetime_by_time_range(start, end)
get_datetime_by_time_range(events, start, end) ==
  SelectSeq(events, LAMBDA e : ~e.allday /\ NotAfter(e.start, end) /\ NotAfter(start, e.end))

\* Event.color: the colour configured for the event's calendar.
color(event) ==
  IF event.calendar = "one" THEN "dark blue" ELSE "dark red"

\* Event.compact(day): the words of the one-line description, as word lengths;
\* a timed event's description starts with its time range.
compact(event, day) ==
  IF event.allday THEN event.summary ELSE <<2>> \o event.summary

\* textwrap.wrap(text, width): greedy filling; a word longer than the width
\* is broken and fills what is left of the line (a line it cannot enter keeps
\* the blank before it); every line is at most width columns.  cur is the
\* length of the line being filled (0 when empty).
RECURSIVE wrap_chunks(_, _, _, _)
wrap_chunks(words, cur, lines, width) ==
  IF words = <<>> THEN (IF cur > 0 THEN Append(lines, cur) ELSE lines)
  ELSE LET w == Head(words)
           need == IF cur = 0 THEN w ELSE cur + 1 + w
       IN IF need <= width THEN wrap_chunks(Tail(words), need, lines, width)
          ELSE IF w > width
            THEN LET space_left == IF cur = 0 THEN width
                                   ELSE IF cur + 1 <= width THEN width - (cur + 1) ELSE 0
                     filled == IF cur = 0 THEN space_left
                               ELSE IF cur + 1 <= width THEN cur + 1 + space_left
                               ELSE cur
                 IN wrap_chunks(<<w - space_left>> \o Tail(words), 0,
                                Append(lines, filled), width)
            ELSE wrap_chunks(words, 0, Append(lines, cur), width)

\* textwrap.wrap raises ValueError for a width below 1.
wrap(words, width) ==
  IF width <= 0 THEN [ok |-> FALSE, lines |-> <<>>]
  ELSE [ok |-> TRUE, lines |-> wrap_chunks(words, 0, <<>>, width)]

\* click.style(text, bold=True)
style(text, bold) == [kind |-> "header", text |-> text, bold |-> bold]

\* terminal.colored(line, color), for one wrapped segment of an event
colored(d, event) ==
  [kind |-> "event", text |-> d, color |-> color(event), event |-> event.uid]

\* ------------------------------------------------------- construct_daynames
\* A text is a record: a literal, or a date formatted by strftime.
literal(text) == [text |-> text, date |-> None]

\* date.strftime(format)
strftime(date, format) == [text |-> format, date |-> Some(date)]

\* lines 55-60: the label of one date
dayname(date, now, longdateformat) ==
  IF date = now THEN literal("Today:")
  ELSE IF date = now + 1 THEN literal("Tomorrow:")
  ELSE strftime(date, longdateformat)

construct_daynames(daylist, now, longdateformat) ==
  [i \in 1..Len(daylist) |-> <<daylist[i], dayname(daylist[i], now, longdateformat)>>]

\* -------------------------------------------------------------- get_agenda
\* list.sort() on dates
RECURSIVE insert_date(_, _)
insert_date(d, s) ==
  IF s = <<>> THEN <<d>>
  ELSE IF d < Head(s) THEN <<d>> \o s
  ELSE <<Head(s)>> \o insert_date(d, Tail(s))

RECURSIVE sort_dates(_)
sort_dates(s) ==
  IF s = <<>> THEN <<>>
  ELSE insert_date(s[Len(s)], sort_dates(SubSeq(s, 1, Len(s) - 1)))

\* A slip: the timed events are left in the order of the query.
sort_events_none(s) == s

\* events.sort(key=lambda e: e.start): stable, ascending start
RECURSIVE insert_event(_, _)
insert_event(e, s) ==
  IF s = <<>> THEN <<e>>
  ELSE IF Before(e.start, Head(s).start) THEN <<e>> \o s
  ELSE <<Head(s)>> \o insert_event(e, Tail(s))

RECURSIVE sort_events(_)
sort_events(s) ==
  IF s = <<>> THEN <<>>
  ELSE insert_event(s[Len(s)], sort_events(SubSeq(s, 1, Len(s) - 1)))

\* lines 79: the assertion on the arguments
assert_args(days, events) == ~(days # None /\ events # None)

\* lines 82-83
resolve_days(days) == IF days = None THEN DefaultDays ELSE days[1]

\* lines 85-96: [ok, dates]; not ok is the fatal InvalidDate path
RECURSIVE parse_dates(_)
parse_dates(items) ==
  IF items = <<>> THEN [ok |-> TRUE, dates |-> <<>>]
  ELSE LET it == Head(items)
           one == IF it.kind = "date" THEN [ok |-> TRUE, date |-> it.v]
                  ELSE datefstr(it.v)
           rest == parse_dates(Tail(items))
       IN IF one.ok /\ rest.ok
            THEN [ok |-> TRUE, dates |-> <<one.date>> \o rest.dates]
            ELSE [ok |-> FALSE, dates |-> <<>>]

resolve_dates(dates, now) ==
  IF dates = None \/ Len(dates[1]) = 0 THEN [ok |-> TRUE, dates |-> <<now>>]
  ELSE parse_dates(dates[1])

\* A slip: range(days + 1).
RECURSIVE expand_from_inclusive(_, _, _)
expand_from_inclusive(dates, one, days) ==
  IF one > days THEN <<>>
  ELSE [i \in 1..Len(dates) |-> dates[i] + one]
       \o expand_from_inclusive(dates, one + 1, days)

\* lines 98-101: [date + one for one in range(days) for date in dates], sorted
RECURSIVE expand_from(_, _, _)
expand_from(dates, one, days) ==
  IF one >= days THEN <<>>
  ELSE [i \in 1..Len(dates) |-> dates[i] + one] \o expand_from(dates, one + 1, days)

\* A slip: a day reached from two dates is kept once.
RECURSIVE dedup(_)
dedup(s) ==
  IF Len(s) <= 1 THEN s
  ELSE IF s[1] = s[2] THEN dedup(Tail(s))
  ELSE <<s[1]>> \o dedup(Tail(s))

expand_daylist_dedup(dates, days) == dedup(sort_dates(expand_from(dates, 0, days)))

expand_daylist(dates, days) == sort_dates(expand_from(dates, 0, days))

\* line 106: datetime.combine(day, time.min)
day_start(day) == [date |-> day, time |-> time_min]

\* A slip: the day ends where it starts.
day_end_min(day) == [date |-> day, time |-> time_min]

\* line 107: datetime.combine(day, time.max)
day_end(day) == [date |-> day, time |-> time_max]

\* A slip: an events list given by the caller is used instead of the query.
timed_events_param(events, stored, start, end) ==
  IF events # None THEN events[1] ELSE get_datetime_by_time_range(stored, start, end)

\* line 111: the local name events is rebound to the query's result
timed_events(events, stored, start, end) ==
  get_datetime_by_time_range(stored, start, end)

\* A slip: the flag is read the wrong way round.
skip_day_flag(events, all_day_events, show_all_days) ==
  Len(events) = 0 /\ Len(all_day_events) = 0 /\ show_all_days

\* A slip: the all-day events are not looked at.
skip_day_timed_only(events, all_day_events, show_all_days) ==
  Len(events) = 0 /\ ~show_all_days

\* line 112: the day is skipped
skip_day(events, all_day_events, show_all_days) ==
  Len(events) = 0 /\ Len(all_day_events) = 0 /\ ~show_all_days

\* line 117: itertools.chain(all_day_events, events)
chain(all_day_events, events) == all_day_events \o events

\* lines 117-119: the lines of the day's events; not ok when wrap raises
RECURSIVE render_events(_, _, _)
render_events(evs, day, width) ==
  IF evs = <<>> THEN [ok |-> TRUE, lines |-> <<>>]
  ELSE LET event == Head(evs)
           desc == wrap(compact(event, day), width)
       IN IF ~desc.ok THEN [ok |-> FALSE, lines |-> <<>>]
          ELSE LET rest == render_events(Tail(evs), day, width)
               IN [ok |-> rest.ok,
                   lines |-> [i \in 1..Len(desc.lines) |-> colored(desc.lines[i], event)]
                             \o rest.lines]

\* lines 105-119: the loop over the named days.  st holds the local names
\* events, event_column and the queries issued so far.
RECURSIVE agenda_loop(_, _, _, _, _)
agenda_loop(stored, daylist, st, width, show_all_days) ==
  IF daylist = <<>> THEN st
  ELSE LET day == Head(daylist)[1]
           name == Head(daylist)[2]
           start == day_start(day)
           end == day_end(day)
           all_day_events == get_allday_by_time_range(stored, day)
           events == timed_events(st.events, stored, start, end)
           queries == st.queries \o
             <<[fn |-> "get_allday_by_time_range", args |-> <<day>>],
               [fn |-> "get_datetime_by_time_range", args |-> <<start, end>>]>>
       IN IF skip_day(events, all_day_events, show_all_days)
            THEN agenda_loop(stored, Tail(daylist),
                             [st EXCEPT !.events = Some(events), !.queries = queries],
                             width, show_all_days)
            ELSE LET header == Append(st.event_column, style(name, TRUE))
                     sorted == sort_events(events)
                     lines == render_events(chain(all_day_events, sorted), day, width)
                 IN IF ~lines.ok
                      THEN [st EXCEPT !.events = Some(sorted), !.queries = queries,
                                      !.event_column = header, !.raised = TRUE]
                      ELSE agenda_loop(stored, Tail(daylist),
                                       [st EXCEPT !.events = Some(sorted),
                                                  !.queries = queries,
                                                  !.event_column = header \o lines.lines],
                                       width, show_all_days)

\* A slip: the empty column is returned as it is.
no_events_fallback_none(event_column) == event_column

\* lines 121-122
no_events_fallback(event_column) ==
  IF event_column = <<>> THEN <<style(literal("No events"), TRUE)>> ELSE event_column

NoResult ==
  [outcome |-> "none", exit_status |-> 0, daylist |-> <<>>, queries |-> <<>>,
   event_column |-> <<>>]

\* lines 63-123
get_agenda(stored, now, dates, days, events, width, show_all_days) ==
  IF ~assert_args(days, events)
    THEN [NoResult EXCEPT !.outcome = "AssertionError"]
  ELSE LET n == resolve_days(days)
           parsed == resolve_dates(dates, now)
       IN IF ~parsed.ok
            THEN [NoResult EXCEPT !.outcome = "SystemExit", !.exit_status = ExitFatal]
            ELSE LET daylist == expand_daylist(parsed.dates, n)
                     named == construct_daynames(daylist, now, locale.longdateformat)
                     st == agenda_loop(stored, named,
                                       [events |-> events, event_column |-> <<>>,
                                        queries |-> <<>>, raised |-> FALSE],
                                       width, show_all_days)
                 IN IF st.raised
                      THEN [outcome |-> "ValueError", exit_status |-> 0,
                            daylist |-> daylist, queries |-> st.queries,
                            event_column |-> st.event_column]
                      ELSE [outcome |-> "return", exit_status |-> 0,
                            daylist |-> daylist, queries |-> st.queries,
                            event_column |-> no_events_fallback(st.event_column)]


\* ----------------------------------------------------------- NewFromString
\* Event(event, calendar, locale): the draft bound to a calendar
Event(draft, calendar) ==
  [allday |-> draft.allday, start |-> draft.start, end |-> draft.end,
   summary |-> draft.summary, calendar |-> calendar]

\* CalendarCollection.new(event): stores the event in the collection's
\* default calendar and gives it its href; a read-only calendar refuses.
collection_new(stored, collection, event) ==
  LET account == default_calendar_name(collection)
  IN IF account \in ReadOnlyCalendars
       THEN [readonly |-> TRUE, stored |-> stored, account |-> account]
       ELSE [readonly |-> FALSE, account |-> account,
             stored |-> Append(stored,
                          [uid |-> Len(stored) + 1, allday |-> event.allday,
                           start |-> event.start, end |-> event.end,
                           summary |-> event.summary, calendar |-> event.calendar,
                           account |-> account])]

\* A slip: the configured default, whatever the collection holds.
event_calendar_conf(collection) == collection.default

\* lines 168-171: the calendar the new event is bound to
event_calendar(collection) == default_calendar_name(collection)

\* lines 176-177: the calendar the read-only message names
message_calendar(collection) == default_calendar_name(collection)

\* lines 179-183: what is echoed after a successful write
print_new(conf, event, href) ==
  IF conf.print_new = "event" THEN <<[kind |-> "long", calendar |-> event.calendar, href |-> href]>>
  ELSE IF conf.print_new = "path"
    THEN <<[kind |-> "path", calendar |-> event.calendar, href |-> href]>>
  ELSE <<>>

NoProc ==
  [outcome |-> "none", exit_status |-> 0, output |-> <<>>, log |-> <<>>,
   writes |-> <<>>, stored |-> <<>>]

\* A slip: the read-only branch logs and goes on to the printing.
NewFromString_no_exit(stored, collection, conf, date_list) ==
  LET draft == construct_event(date_list)
  IN IF draft.fatal
       THEN [outcome |-> "SystemExit", exit_status |-> ExitFatal, output |-> <<>>,
             log |-> <<>>, writes |-> <<>>, stored |-> stored]
       ELSE LET event == Event(draft, event_calendar(collection))
                written == collection_new(stored, collection, event)
            IN [outcome |-> "return", exit_status |-> 0,
                output |-> print_new(conf, event, Len(written.stored)),
                log |-> IF written.readonly
                          THEN <<[level |-> "fatal", text |-> "read-only",
                                  calendar |-> message_calendar(collection)]>>
                          ELSE <<>>,
                writes |-> <<[event |-> event, account |-> written.account]>>,
                stored |-> written.stored]

\* lines 159-183
NewFromString(stored, collection, conf, date_list) ==
  LET draft == construct_event(date_list)
  IN IF draft.fatal
       THEN [outcome |-> "SystemExit", exit_status |-> ExitFatal, output |-> <<>>,
             log |-> <<>>, writes |-> <<>>, stored |-> stored]
       ELSE LET event == Event(draft, event_calendar(collection))
                written == collection_new(stored, collection, event)
            IN IF written.readonly
                 THEN [outcome |-> "SystemExit", exit_status |-> ExitFatal,
                       output |-> <<>>,
                       log |-> <<[level |-> "fatal", text |-> "read-only",
                                  calendar |-> message_calendar(collection)]>>,
                       writes |-> <<[event |-> event, account |-> written.account]>>,
                       stored |-> stored]
                 ELSE [outcome |-> "return", exit_status |-> 0,
                       output |-> print_new(conf, event, Len(written.stored)),
                       log |-> <<>>,
                       writes |-> <<[event |-> event, account |-> written.account]>>,
                       stored |-> written.stored]

\* ------------------------------------------------------------ state machine
DateLists == {None} \cup {Some(s) : s \in SeqsUpTo(DateItems, MaxDates)}
DayCounts == {None} \cup {Some(n) : n \in 0..MaxDays}
EventLists == {None, Some(<<GhostEvent>>)}
Nameable == {None} \cup {Some(c) : c \in Calendars}
DateListTexts == [date : DateCodes, time : TimeCodes, title : Titles]

Init ==
  /\ store = <<>>
  /\ today \in Clock
  /\ call = [op |-> "none"]
  /\ ret = NoResult
  /\ proc = NoProc

\* A call of get_agenda whose arguments pass the assertion of line 79.
Agenda ==
  \E dates \in DateLists, days \in DayCounts, events \in EventLists,
     width \in Widths, show_all_days \in BOOLEAN :
    /\ call.op = "none"
    /\ assert_args(days, events)
    /\ call' = [op |-> "get_agenda", dates |-> dates, days |-> days,
                events |-> events, width |-> width,
                show_all_days |-> show_all_days]
    /\ ret' = get_agenda(store, today, dates, days, events, width, show_all_days)
    /\ proc' = NoProc
    /\ UNCHANGED <<store, today>>

\* A call of get_agenda with both a day-count and an events list.
AgendaBadArgs ==
  \E days \in DayCounts, events \in EventLists :
    /\ call.op = "none"
    /\ ~assert_args(days, events)
    /\ call' = [op |-> "get_agenda", dates |-> None, days |-> days,
                events |-> events, width |-> DefaultWidth,
                show_all_days |-> FALSE]
    /\ ret' = get_agenda(store, today, None, days, events, DefaultWidth, FALSE)
    /\ proc' = NoProc
    /\ UNCHANGED <<store, today>>

\* The command "new": the caller builds the collection, naming a calendar or
\* not, and constructs NewFromString.
New ==
  \E named \in Nameable, default \in Calendars, date_list \in DateListTexts,
     print \in PrintNew :
    LET collection == [named |-> named, default |-> default]
        conf == [print_new |-> print, default_calendar |-> default]
        done == NewFromString(store, collection, conf, date_list)
    IN /\ call.op = "none"
       /\ Len(store) < MaxEvents
       /\ call' = [op |-> "NewFromString", named |-> named,
                   default |-> default, date_list |-> date_list, print_new |-> print]
       /\ proc' = done
       /\ store' = done.stored
       /\ ret' = NoResult
       /\ UNCHANGED today

\* The invocation ends: its result and its process are gone, the calendars
\* stay.  Invocations never interleave.
Finish ==
  /\ call.op # "none"
  /\ call' = [op |-> "none"]
  /\ ret' = NoResult
  /\ proc' = NoProc
  /\ UNCHANGED <<store, today>>

Next == Agenda \/ AgendaBadArgs \/ New \/ Finish

Spec == Init /\ [][Next]_vars

\* ------------------------------------------------------------------ claims
AgendaCalled == call.op = "get_agenda"
AgendaReturned == AgendaCalled /\ ret.outcome = "return"
NewCalled == call.op = "NewFromString"

NoEventsLine == [kind |-> "header", text |-> literal("No events"), bold |-> TRUE]

Range(s) == {s[i] : i \in 1..Len(s)}
Count(s, v) == Cardinality({i \in 1..Len(s) : s[i] = v})
IsSorted(s) == \A i \in 1..Len(s) - 1 : s[i] <= s[i + 1]

\* The stored events that lie on day d, all-day or timed.
OnDay(e, d) == e.start.date <= d /\ d <= e.end.date
DayHasEvents(d) == \E i \in 1..Len(store) : OnDay(store[i], d)

\* The date a day header stands for.
HeaderDate(line) ==
  IF line.text.text = "Today:" THEN today
  ELSE IF line.text.text = "Tomorrow:" THEN today + 1
  ELSE line.text.date[1]

IsDayHeader(line) == line.kind = "header" /\ line.text.text # "No events"
DayHeaders(column) == SelectSeq(column, IsDayHeader)
HeaderDates(column) ==
  [i \in 1..Len(DayHeaders(column)) |-> HeaderDate(DayHeaders(column)[i])]

\* The index of the header that opens the segment line j belongs to (0: none).
SegmentOf(column, j) ==
  LET before == {i \in 1..j : column[i].kind = "header"}
  IN IF before = {} THEN 0 ELSE CHOOSE i \in before : \A k \in before : k <= i

EventLines(column) == {j \in 1..Len(column) : column[j].kind = "event"}

\* The dates the call asks for, after parsing; today when it names none.
RequestedDates ==
  IF call.dates = None \/ Len(call.dates[1]) = 0 THEN <<today>>
  ELSE [i \in 1..Len(call.dates[1]) |->
          IF call.dates[1][i].kind = "date" THEN call.dates[1][i].v
          ELSE datefstr(call.dates[1][i].v).date]
DatesParse ==
  call.dates = None \/
  \A i \in 1..Len(call.dates[1]) :
    call.dates[1][i].kind = "date" \/ datefstr(call.dates[1][i].v).ok
DayCount == IF call.days = None THEN DefaultDays ELSE call.days[1]

\* The call got as far as the expansion of its day list.
Expanded == AgendaCalled /\ ret.outcome \in {"return", "ValueError"}

\* C1: when no expanded day has an event and show_all_days is false,
\* get_agenda returns exactly the bold "No events" line and no day header.
C1_NoEventsOnly ==
  (AgendaReturned /\ ~call.show_all_days
     /\ \A d \in Range(ret.daylist) : ~DayHasEvents(d))
  => ret.event_column = <<NoEventsLine>>

C1_Witness ==
  /\ AgendaReturned /\ ~call.show_all_days
  /\ Len(ret.daylist) >= 2 /\ Len(store) >= 1
  /\ \A d \in Range(ret.daylist) : ~DayHasEvents(d)
  /\ ret.event_column = <<NoEventsLine>>

\* C2: the day headers of the returned column are, in order, exactly the
\* expanded days for which show_all_days is true or the collection holds an
\* all-day or timed event: one header per such day, none for any other.
C2_HeaderIffShown ==
  AgendaReturned =>
    HeaderDates(ret.event_column) =
      SelectSeq(ret.daylist, LAMBDA d : call.show_all_days \/ DayHasEvents(d))

C2_Witness ==
  /\ AgendaReturned /\ call.show_all_days
  /\ \E d \in Range(ret.daylist) : ~DayHasEvents(d)
  /\ \E d \in Range(ret.daylist) : DayHasEvents(d)
  /\ Len(DayHeaders(ret.event_column)) = Len(ret.daylist)

\* The column shows the stored event i under a header of its date.
ShownUnderItsDay(i) ==
  \E j \in EventLines(ret.event_column) :
    /\ ret.event_column[j].event = store[i].uid
    /\ SegmentOf(ret.event_column, j) # 0
    /\ HeaderDate(ret.event_column[SegmentOf(ret.event_column, j)]) = store[i].start.date
NotShown(i) ==
  \A j \in EventLines(ret.event_column) : ret.event_column[j].event # store[i].uid

\* C3 as stated: once a timed event is stored on date d, every call of
\* get_agenda returns a header for d followed by a line for the event when d
\* is among the expanded days, and no line for it otherwise.
C3_Original ==
  AgendaCalled =>
    \A i \in 1..Len(store) :
      ~store[i].allday =>
        IF store[i].start.date \in Range(ret.daylist)
          THEN ret.outcome = "return" /\ ShownUnderItsDay(i)
          ELSE NotShown(i)

\* C3 as amended: the same, for the calls whose width is at least 1.
C3_VisibleWhenWidthPositive ==
  (AgendaCalled /\ call.width >= 1) =>
    \A i \in 1..Len(store) :
      ~store[i].allday =>
        IF store[i].start.date \in Range(ret.daylist)
          THEN ret.outcome = "return" /\ ShownUnderItsDay(i)
          ELSE NotShown(i)

C3_Witness ==
  /\ AgendaReturned /\ call.width >= 1
  /\ \E i, k \in 1..Len(store) :
       /\ ~store[i].allday /\ store[i].start.date \in Range(ret.daylist)
       /\ ShownUnderItsDay(i)
       /\ ~store[k].allday /\ store[k].start.date \notin Range(ret.daylist)
       /\ NotShown(k)

\* C4: a column that get_agenda returns is never empty.
C4_NeverEmpty == AgendaReturned => Len(ret.event_column) >= 1

C4_Witness ==
  /\ AgendaReturned /\ call.days = Some(0) /\ call.width = 0
  /\ call.show_all_days /\ Len(store) >= 1
  /\ ret.event_column = <<NoEventsLine>>

SameDates(s, t) ==
  Len(s) = Len(t) /\ \A v \in Range(s) \cup Range(t) : Count(s, v) = Count(t, v)

\* C5 as stated: with day-count 0 the expanded day list is the input date
\* list, sorted, duplicates kept.
C5_Original ==
  (Expanded /\ call.days = Some(0)) =>
    IsSorted(ret.daylist) /\
    SameDates(ret.daylist,
              IF call.dates = None \/ Len(call.dates[1]) = 0 THEN <<>>
              ELSE RequestedDates)

\* C5 as amended: with day-count 0 the expanded day list is empty and the
\* column is the "No events" line alone; with day-count 1 the expanded day
\* list is the requested dates (today when none is given), sorted, duplicates
\* kept.
C5_ZeroEmptyOneIdentity ==
  /\ (Expanded /\ call.days = Some(0)) =>
       ret.daylist = <<>> /\ ret.event_column = <<NoEventsLine>>
  /\ (Expanded /\ call.days = Some(1)) =>
       IsSorted(ret.daylist) /\ SameDates(ret.daylist, RequestedDates)

C5_Witness ==
  /\ AgendaReturned /\ call.days = Some(0)
  /\ call.dates # None /\ Len(RequestedDates) = 2
  /\ DayHasEvents(RequestedDates[1])
  /\ ret.daylist = <<>>

\* The calendar a "new" invocation aims at: the one the caller named, the
\* configured default otherwise.
TargetCalendar == IF call.named # None THEN call.named[1] ELSE call.default
ParserFails == ~datefstr(call.date_list.date).ok

\* C6: a parser failure and a read-only calendar both end NewFromString with
\* exit status 1 and nothing echoed; after a parser failure no write was
\* attempted and nothing was logged about a calendar.
C6_FatalPaths ==
  NewCalled =>
    /\ ParserFails =>
         /\ proc.outcome = "SystemExit" /\ proc.exit_status = ExitFatal
         /\ proc.output = <<>> /\ proc.writes = <<>>
    /\ (~ParserFails /\ TargetCalendar \in ReadOnlyCalendars) =>
         /\ proc.outcome = "SystemExit" /\ proc.exit_status = ExitFatal
         /\ proc.output = <<>>
    /\ proc.outcome = "SystemExit" => proc.output = <<>>

C6_Witness ==
  /\ NewCalled /\ ~ParserFails /\ TargetCalendar \in ReadOnlyCalendars
  /\ call.print_new = "event"
  /\ proc.exit_status = ExitFatal /\ Len(proc.writes) = 1 /\ proc.output = <<>>

EventOf(line) == store[line.event]
SameSegment(column, i, j) == SegmentOf(column, i) = SegmentOf(column, j)

\* C8: in the returned column every event line follows a day header; within
\* one day's segment no timed line precedes an all-day line, the all-day
\* events come in the order the collection returned them, the timed events
\* come by ascending start with equal starts in the order the collection
\* returned them; and the segment holds exactly the events of its day.
C8_OrderWithinDay ==
  AgendaReturned =>
    LET col == ret.event_column
    IN /\ \A j \in EventLines(col) :
            /\ SegmentOf(col, j) # 0
            /\ ret.event_column[j].event \in 1..Len(store)
            /\ OnDay(EventOf(col[j]), HeaderDate(col[SegmentOf(col, j)]))
       /\ \A i, j \in EventLines(col) :
            (i < j /\ SameSegment(col, i, j)) =>
              LET a == EventOf(col[i])
                  b == EventOf(col[j])
              IN /\ a.allday \/ ~b.allday
                 /\ (a.allday /\ b.allday) => a.uid <= b.uid
                 /\ (~a.allday /\ ~b.allday) =>
                      /\ ~Before(b.start, a.start)
                      /\ (a.start = b.start => a.uid <= b.uid)
       /\ \A h \in 1..Len(col) :
            IsDayHeader(col[h]) =>
              \A k \in 1..Len(store) :
                OnDay(store[k], HeaderDate(col[h])) =>
                  \E j \in EventLines(col) :
                    SegmentOf(col, j) = h /\ col[j].event = k

C8_Witness ==
  /\ AgendaReturned
  /\ \E i, j \in EventLines(ret.event_column) :
       /\ i < j /\ SameSegment(ret.event_column, i, j)
       /\ ~EventOf(ret.event_column[i]).allday
       /\ ~EventOf(ret.event_column[j]).allday
       /\ EventOf(ret.event_column[i]).uid > EventOf(ret.event_column[j]).uid

\* The number of ways day v is reached: pairs of a requested date and an
\* offset below the day-count.
Reached(v) ==
  Cardinality({p \in (1..Len(RequestedDates)) \X (0..DayCount - 1) :
                 RequestedDates[p[1]] + p[2] = v})

\* C9: the expanded day list is sorted, has |D| * n entries and holds every
\* day as often as it is reached from a requested date; each entry is
\* queried in turn, and a day that is shown gets one header per entry.
C9_ExpandedMultiset ==
  Expanded =>
    /\ IsSorted(ret.daylist)
    /\ Len(ret.daylist) = Len(RequestedDates) * DayCount
    /\ \A v \in Range(ret.daylist) \cup
                {RequestedDates[i] + k : i \in 1..Len(RequestedDates), k \in 0..DayCount - 1} :
         Count(ret.daylist, v) = Reached(v)
    /\ ret.outcome = "return" =>
         /\ Len(ret.queries) = 2 * Len(ret.daylist)
         /\ \A i \in 1..Len(ret.daylist) :
              /\ ret.queries[2 * i - 1] =
                   [fn |-> "get_allday_by_time_range", args |-> <<ret.daylist[i]>>]
              /\ ret.queries[2 * i].fn = "get_datetime_by_time_range"
              /\ ret.queries[2 * i].args[1].date = ret.daylist[i]
              /\ ret.queries[2 * i].args[2].date = ret.daylist[i]
         /\ \A v \in Range(ret.daylist) :
              (call.show_all_days \/ DayHasEvents(v)) =>
                Count(HeaderDates(ret.event_column), v) = Reached(v)

C9_Witness ==
  /\ AgendaReturned
  /\ \E v \in Range(ret.daylist) :
       /\ Count(ret.daylist, v) = 2 /\ DayHasEvents(v)
       /\ Count(HeaderDates(ret.event_column), v) = 2
       /\ Cardinality({j \in EventLines(ret.event_column) :
                         ret.event_column[j].event = 1}) >= 2

\* C10: a call that passes an events list and no day-count issues the
\* queries and returns the column of the same call without the list, and
\* renders nothing but events the collection holds.
C10_EventsIgnored ==
  (AgendaCalled /\ call.events # None /\ call.days = None) =>
    /\ ret = get_agenda(store, today, call.dates, None, None, call.width,
                        call.show_all_days)
    /\ \A j \in EventLines(ret.event_column) :
         /\ ret.event_column[j].event # GhostEvent.uid
         /\ ret.event_column[j].event \in 1..Len(store)

C10_Witness ==
  /\ AgendaReturned /\ call.events = Some(<<GhostEvent>>) /\ call.days = None
  /\ GhostEvent.start.date \in Range(ret.daylist)
  /\ EventLines(ret.event_column) # {}

====
